---- MODULE Spec2Model ----
(***************************************************************************)
(* The tarball lifecycle of scripts/automated_ingestion: the run driver    *)
(* (automated_ingestion.py, main) and the handlers of EessiTarball         *)
(* (eessitarball.py), over an S3 bucket, the staging repository on GitHub  *)
(* and its local clone.                                                    *)
(*                                                                         *)
(* Every handler is one action.  The outcomes of the external calls a      *)
(* handler makes (download, copy_object, delete_object, the ingestion      *)
(* script, the tarball overview, create_pull, Slack) are chosen with \E.   *)
(* An exception that no handler catches ends the run (main has no          *)
(* try/except around run_handler).                                         *)
(***************************************************************************)
EXTENDS Integers, Sequences, FiniteSets, TLC

(***************************************************************************)
(* Bounds and input sets                                                   *)
(***************************************************************************)
\* number of invocations of main
MaxRuns == 2

\* number of moves in the bucket that fail (copy_object or delete_object
\* raising, no CopyObjectResult, another ETag)
MaxS3Faults == 1

\* the tarballs of the bucket, by their path 'tarballs/<dir>/<file>' as its
\* segments, in the order of their keys
TarballSeq == << <<"tarballs", "d1", "foo">> >>
Tarballs == {TarballSeq[i] : i \in 1..Len(TarballSeq)}

ETags == {"e1", "e2"}
Contents == {"c1", "c2"}

NoObj == "none"
Absent == "absent"

(***************************************************************************)
(* Program constants                                                       *)
(***************************************************************************)
TARBALL_ALL_STATES == <<"new", "staged", "pr_opened", "approved", "rejected", "ingested">>
\* a wrong constant: no state is an end state
TARBALL_END_STATES_none == {}
TARBALL_END_STATES == {"rejected", "ingested"}

StateSet == {TARBALL_ALL_STATES[i] : i \in 1..Len(TARBALL_ALL_STATES)}

\* self.states: the handler and the next state of a state
states_handler ==
    [new |-> "handle_new_tarball", staged |-> "open_approval_request",
     pr_opened |-> "check_pr_status", approved |-> "ingest"]

states_next_state ==
    [new |-> "staged", staged |-> "pr_opened", approved |-> "ingested"]

\* a wrong table: approved leads back to new
next_state_backward(state) ==
    IF state = "approved" THEN "new"
    ELSE IF state \in DOMAIN states_next_state THEN states_next_state[state]
    ELSE "None"

next_state(state) ==
    IF state \in DOMAIN states_next_state THEN states_next_state[state] ELSE "None"

(***************************************************************************)
(* Paths and checksums                                                     *)
(***************************************************************************)
\* os.path.basename(tarball_path): the last segment
Basename(t) == t[Len(t)]

Names == {Basename(t) : t \in Tarballs}
Branches == Names \cup {"main"}

\* str.replace(old, new, 1) on the segments of a path: the first occurrence
RECURSIVE ReplaceFirst(_, _, _)
ReplaceFirst(path, old, new) ==
    IF path = <<>> THEN <<>>
    ELSE IF Head(path) = old THEN <<new>> \o Tail(path)
    ELSE <<Head(path)>> \o ReplaceFirst(Tail(path), old, new)

\* the key '<state>/<dir>/<file>.meta.txt' of a tarball's metadata file, as its
\* segments (the extension is left out of the last segment)
MetaPath(state, t) == ReplaceFirst(t, "tarballs", state)

Keys == {MetaPath(s, t) : s \in StateSet, t \in Tarballs}

\* sha256sum of a file with the given content
sha256sum(content) == <<"sha256", content>>

(***************************************************************************)
(* State                                                                   *)
(***************************************************************************)
VARIABLES
    s3meta,         \* bucket: metadata key -> ETag of the object, or NoObj
    payload,        \* bucket: tarball -> content of the payload object
    declared,       \* tarball -> payload.sha256sum of its metadata file
    localTar,       \* download_dir: file name -> content of the tarball file, or Absent
    localMeta,      \* download_dir: file name -> tarball whose metadata file it holds, or Absent
    ghBranches,     \* GitHub: the branches of the staging repo besides main
    ghTree,         \* GitHub: branch -> metadata files in its tree
    pr,             \* GitHub: branch -> state of the pull request with that head
    issues,         \* GitHub: title -> number of open issues with that title
    comment,        \* GitHub: tarball -> rows added to the comment in the software-layer PR
    localBranches,  \* local clone: branches besides main
    locTree,        \* local clone: branch -> metadata files in its tree
    remoteRefs,     \* local clone: refs/remotes/origin/<branch>
    pullRefs,       \* local clone: refs/remotes/origin/pull/<n>/head, by head branch
    installs,       \* tarball -> number of runs of the ingestion script
    run,            \* main: where the current invocation is
    runs,           \* number of invocations of main so far
    s3faults,       \* number of failed moves in the bucket so far
    last,           \* what the last handler execution did
    rec             \* a record whose methods are called directly, or NoRecord

store == <<s3meta, payload, declared>>
cache == <<localTar, localMeta>>
github == <<ghBranches, ghTree, pr, issues, comment>>
clone == <<localBranches, locTree, remoteRefs, pullRefs>>
vars == <<s3meta, payload, declared, localTar, localMeta, ghBranches, ghTree, pr, issues,
          comment, localBranches, locTree, remoteRefs, pullRefs, installs, run, runs,
          s3faults, last, rec>>

Idle == [phase |-> "idle", only |-> "all", list_only |-> FALSE, idx |-> 0,
         todo |-> <<>>, handled |-> {}]

NoHandler ==
    [handler |-> "none", tarball |-> <<>>, raised |-> FALSE,
     state0 |-> "None", state1 |-> "None", path0 |-> <<>>, path1 |-> <<>>,
     move |-> "none", copy |-> "none", copy_etag |-> NoObj, etag |-> NoObj,
     src |-> <<>>, dst |-> <<>>, copied |-> FALSE, deleted |-> FALSE,
     git_moved |-> FALSE, branch_ref |-> "na", branch_deleted |-> FALSE,
     pr_found |-> "na", checksum |-> "na", installer |-> "none",
     new_state |-> "None", old_state |-> "None", issue |-> "na"]

\* no record is held outside main
NoRecord == [state |-> "None"]

Init ==
    /\ s3meta = [k \in Keys |-> IF k[1] = "new" THEN "e1" ELSE NoObj]
    /\ payload = [t \in Tarballs |-> "c1"]
    /\ declared \in [Tarballs -> {sha256sum(c) : c \in Contents}]
    /\ localTar = [b \in Names |-> Absent]
    /\ localMeta = [b \in Names |-> Absent]
    /\ ghBranches = {}
    /\ ghTree = [b \in Branches |-> {}]
    /\ pr = [b \in Names |-> "none"]
    /\ issues = [i \in {"ingest", "overview"} \X Tarballs |-> 0]
    /\ comment = [t \in Tarballs |-> <<>>]
    /\ localBranches = {}
    /\ locTree = [b \in Branches |-> {}]
    /\ remoteRefs = {}
    /\ pullRefs = {}
    /\ installs = [t \in Tarballs |-> 0]
    /\ run = Idle
    /\ runs = 0
    /\ s3faults = 0
    /\ last = NoHandler
    /\ rec = NoRecord

\* a wrong download: the tarball's local path is kept when its download failed
download_keeps_tarball_path(t, got_tar, got_meta) ==
    LET name == Basename(t)
        need_tar == localTar[name] = Absent
        need_meta == localMeta[name] = Absent
    IN  [localTar |-> IF need_tar /\ got_tar
                      THEN [localTar EXCEPT ![name] = payload[t]] ELSE localTar,
         localMeta |-> IF need_meta /\ got_meta
                       THEN [localMeta EXCEPT ![name] = t] ELSE localMeta,
         local_tarball_path |-> name,
         local_metadata_path |-> IF need_meta /\ ~got_meta THEN "None" ELSE name]

(***************************************************************************)
(* EessiTarball.__init__ and download                                      *)
(***************************************************************************)
\* download(): a file is fetched only if it is not in download_dir yet; a failed
\* download sets the local path to None.  got_tar, got_meta: whether
\* s3.download_file succeeds for the tarball, for the metadata file.
download(t, got_tar, got_meta) ==
    LET name == Basename(t)
        need_tar == localTar[name] = Absent
        need_meta == localMeta[name] = Absent
    IN  [localTar |-> IF need_tar /\ got_tar
                      THEN [localTar EXCEPT ![name] = payload[t]] ELSE localTar,
         localMeta |-> IF need_meta /\ got_meta
                       THEN [localMeta EXCEPT ![name] = t] ELSE localMeta,
         local_tarball_path |-> IF need_tar /\ ~got_tar THEN "None" ELSE name,
         local_metadata_path |-> IF need_meta /\ ~got_meta THEN "None" ELSE name]

\* The record main constructs for a listed object: obj = [key, etag] of the
\* listing, state the listed state.  raised: os.path.exists(None) raises
\* TypeError when the download of the metadata file failed.
EessiTarball(obj, state, got_tar, got_meta) ==
    LET tarball_path == ReplaceFirst(obj.key, state, "tarballs")
        d == download(tarball_path, got_tar, got_meta)
        name == Basename(tarball_path)
    IN  [raised |-> d.local_metadata_path = "None",
         localTar |-> d.localTar,
         localMeta |-> d.localMeta,
         remote_tarball_path |-> tarball_path,
         remote_metadata_path |-> ReplaceFirst(tarball_path, "tarballs", state),
         s3_object_etag |-> obj.etag,
         local_tarball_path |-> d.local_tarball_path,
         local_metadata_path |-> d.local_metadata_path,
         \* the tarball whose metadata file was read from local_metadata_path
         metadata |-> IF d.local_metadata_path = "None" THEN <<>> ELSE d.localMeta[name],
         state |-> state]

(***************************************************************************)
(* s3_move_metadata_file                                                   *)
(***************************************************************************)
\* What s3.copy_object can do: raise, return without a CopyObjectResult (the
\* object copied or not), or return the ETag of the copy.
CopyOutcomes ==
    {[kind |-> "exception", copied |-> FALSE, etag |-> NoObj]}
    \cup {[kind |-> "no_result", copied |-> c, etag |-> NoObj] : c \in BOOLEAN}
    \cup {[kind |-> "result", copied |-> TRUE, etag |-> e] : e \in ETags}

\* s3.delete_object returns or raises
DeleteOutcomes == {"ok", "exception"}

\* a wrong move: the original is deleted whatever ETag the copy returned
s3_move_unverified(s3, self, new_state, cp, del) ==
    LET original_path == self.remote_metadata_path
        new_state_path == ReplaceFirst(self.remote_metadata_path, self.state, new_state)
        moved == [[s3 EXCEPT ![new_state_path] = cp.etag] EXCEPT ![original_path] = NoObj]
    IN  IF cp.kind = "result"
        THEN [s3 |-> moved, ret |-> "True", path |-> new_state_path,
              src |-> original_path, dst |-> new_state_path, copy |-> cp.kind,
              copy_etag |-> cp.etag, copied |-> TRUE, deleted |-> TRUE]
        ELSE [s3 |-> s3, ret |-> "False", path |-> original_path,
              src |-> original_path, dst |-> new_state_path, copy |-> cp.kind,
              copy_etag |-> cp.etag, copied |-> FALSE, deleted |-> FALSE]

\* a wrong move: the original is never deleted
s3_move_copy_only(s3, self, new_state, cp, del) ==
    LET original_path == self.remote_metadata_path
        new_state_path == ReplaceFirst(self.remote_metadata_path, self.state, new_state)
        verified == cp.kind = "result" /\ cp.etag = self.s3_object_etag
    IN  [s3 |-> IF cp.kind = "result" THEN [s3 EXCEPT ![new_state_path] = cp.etag] ELSE s3,
         ret |-> IF verified THEN "True" ELSE "False",
         path |-> IF verified THEN new_state_path ELSE original_path,
         src |-> original_path, dst |-> new_state_path, copy |-> cp.kind,
         copy_etag |-> cp.etag, copied |-> cp.kind = "result", deleted |-> FALSE]

\* The move in the bucket `s3` for record `self`.  ret: "True", "False", or
\* "raise" when delete_object raised.  path: self.remote_metadata_path afterwards.
s3_move_metadata_file(s3, self, new_state, cp, del) ==
    LET original_path == self.remote_metadata_path
        new_state_path == ReplaceFirst(self.remote_metadata_path, self.state, new_state)
        after_copy ==
            IF cp.copied
            THEN [s3 EXCEPT ![new_state_path] =
                     IF cp.kind = "result" THEN cp.etag ELSE s3[original_path]]
            ELSE s3
        failed == [s3 |-> after_copy, ret |-> "False", path |-> original_path,
                   src |-> original_path, dst |-> new_state_path,
                   copy |-> cp.kind, copy_etag |-> cp.etag,
                   copied |-> cp.copied, deleted |-> FALSE]
    IN  IF cp.kind = "exception" THEN failed
        ELSE IF cp.kind = "no_result" THEN failed
        ELSE IF self.s3_object_etag = cp.etag
             THEN IF del = "exception"
                  THEN [failed EXCEPT !.ret = "raise"]
                  ELSE [failed EXCEPT !.s3 = [after_copy EXCEPT ![original_path] = NoObj],
                                      !.ret = "True", !.path = new_state_path,
                                      !.deleted = TRUE]
             ELSE failed

\* copy_object raises when the source object is gone
CopyOutcomesOf(self) ==
    IF s3meta[self.remote_metadata_path] = NoObj
    THEN {cp \in CopyOutcomes : cp.kind = "exception"}
    ELSE CopyOutcomes

\* a move that was tried and did not return True
Faulty(m) == m.ret \in {"False", "raise"}

NoMove(self) ==
    [s3 |-> s3meta, ret |-> "none", path |-> self.remote_metadata_path,
     src |-> <<>>, dst |-> <<>>, copy |-> "none", copy_etag |-> NoObj,
     copied |-> FALSE, deleted |-> FALSE]

(***************************************************************************)
(* The staging repository: GitHub and the local clone                      *)
(***************************************************************************)
Git == [ghBranches |-> ghBranches, ghTree |-> ghTree, localBranches |-> localBranches,
        locTree |-> locTree, remoteRefs |-> remoteRefs, raised |-> FALSE, moved |-> FALSE]

\* git checkout <branch>: a local branch, or a new local branch from
\* origin/<branch> (whose tree is the one last pushed or fetched); else an error
checkout(g, branch) ==
    IF branch = "main" \/ branch \in g.localBranches THEN g
    ELSE IF branch \in g.remoteRefs
         THEN [g EXCEPT !.localBranches = @ \cup {branch},
                        !.locTree[branch] = g.ghTree[branch]]
         ELSE [g EXCEPT !.raised = TRUE]

\* git push origin <branch> of the commit that made `tree` out of the branch
push(g, branch, tree) ==
    [g EXCEPT !.ghBranches = IF branch = "main" THEN @ ELSE @ \cup {branch},
              !.ghTree[branch] = tree,
              !.remoteRefs = IF branch = "main" THEN @ ELSE @ \cup {branch}]

\* git mv + commit + push in `branch`, if the old path is in its working tree
git_move_metadata_file(g, self, old_state, new_state, branch) ==
    LET metadata_path == Tail(self.remote_metadata_path)
        file_path_old == <<old_state>> \o metadata_path
        file_path_new == <<new_state>> \o metadata_path
        c == checkout(g, branch)
        mv(tree) == (tree \ {file_path_old}) \cup {file_path_new}
    IN  IF c.raised THEN c
        ELSE IF file_path_old \in c.locTree[branch]
             THEN [push([c EXCEPT !.locTree[branch] = mv(@)], branch,
                        IF branch = "main" THEN mv(c.ghTree[branch])
                        ELSE mv(c.locTree[branch]))
                   EXCEPT !.moved = TRUE]
             ELSE c

\* get_approval_pr: the branch's commit among the remote refs of the clone, then
\* a pull/<n>/head ref at that commit; "no_branch", "no_pull" or the PR's state
get_approval_pr(self) ==
    LET pr_branch == Basename(self.remote_tarball_path)
    IN  IF pr_branch \notin remoteRefs THEN "no_branch"
        ELSE IF pr_branch \notin pullRefs THEN "no_pull"
        ELSE pr[pr_branch]

\* a wrong edit: the row replaces the comment's body
update_sw_repo_comment_replace(c, self, comment_template) ==
    [c EXCEPT ![self.metadata] = <<comment_template>>]

\* update_sw_repo_comment: a row is appended to the comment of the tarball the
\* metadata names
update_sw_repo_comment(c, self, comment_template) ==
    [c EXCEPT ![self.metadata] = Append(@, comment_template)]

(***************************************************************************)
(* main                                                                    *)
(***************************************************************************)
\* parse_args: --state and --list (in list-only mode nothing depends on --state)
Args == {[state |-> s, list_only |-> FALSE] : s \in StateSet \cup {"all"}}
        \cup {[state |-> "all", list_only |-> TRUE]}

RunStates(only) == IF only = "all" THEN TARBALL_ALL_STATES ELSE <<only>>

\* find_tarballs: the objects under the prefix, in key order
find_tarballs(state) ==
    LET listed == SelectSeq(TarballSeq, LAMBDA t : s3meta[MetaPath(state, t)] # NoObj)
    IN  [i \in 1..Len(listed) |->
            [key |-> MetaPath(state, listed[i]), etag |-> s3meta[MetaPath(state, listed[i])]]]

\* The loop over the states goes on with the next state once the listed
\* objects of a state are handled, and main ends after the last state.
Advance(r) ==
    IF r.todo # <<>> THEN r
    ELSE IF r.idx < Len(RunStates(r.only)) THEN [r EXCEPT !.phase = "list", !.idx = @ + 1]
    ELSE [phase |-> "idle", only |-> "all", list_only |-> FALSE, idx |-> 0,
          todo |-> <<>>, handled |-> {}]

\* a wrong lock: the pid file is never found locked
pidfile_never_locked == FALSE

\* @pid.decorator.pidfile('automated_ingestion.pid'): the pid file is locked
\* from the call of main until main returns or an exception leaves it
pidfile_locked == run.phase # "idle"

\* main up to the loop over the states.  fresh: the local clone's directory
\* does not exist and clone_staging_repo clones the repository.
StartRun(only, list_only, fresh) ==
    /\ ~pidfile_locked
    /\ runs < MaxRuns
    /\ runs' = runs + 1
    /\ run' = [phase |-> "list", only |-> only, list_only |-> list_only, idx |-> 1,
               todo |-> <<>>, handled |-> {}]
    /\ IF fresh
       THEN /\ localBranches' = {}
            /\ locTree' = [b \in Branches |-> IF b = "main" THEN ghTree[b] ELSE {}]
            /\ remoteRefs' = ghBranches
            /\ pullRefs' = {}
       ELSE UNCHANGED clone
    /\ last' = NoHandler
    /\ UNCHANGED <<store, cache, github, installs, s3faults, rec>>

\* a wrong branch: --list is not looked at
to_handle_despite_list_only(list_only, state) ==
    IF state \in TARBALL_END_STATES THEN <<>> ELSE find_tarballs(state)

\* the listed objects a record is constructed for: none with --list (they are
\* printed only), none for an end state
to_handle(list_only, state) ==
    IF list_only \/ state \in TARBALL_END_STATES THEN <<>> ELSE find_tarballs(state)

\* The head of one iteration of the loop over the states: update_staging_repo,
\* fetch_pulls_staging_repo, find_tarballs.  Nothing is handled in list-only
\* mode or for an end state.
ListState ==
    /\ run.phase = "list"
    /\ LET state == RunStates(run.only)[run.idx]
       IN  run' = Advance([run EXCEPT !.phase = "handle",
                                      !.todo = to_handle(run.list_only, state)])
    /\ remoteRefs' = remoteRefs \cup ghBranches
    /\ locTree' = [locTree EXCEPT !["main"] = ghTree["main"]]
    /\ pullRefs' = pullRefs \cup {b \in Names : pr[b] # "none"}
    /\ last' = NoHandler
    /\ UNCHANGED <<store, cache, github, localBranches, installs, runs, s3faults, rec>>

\* the listed object that is handled next, and its state
Current == Head(run.todo)

\* whether s3.download_file, if called for the listed object, succeeds
GotTar == IF localTar[Basename(Current.key)] = Absent THEN BOOLEAN ELSE {TRUE}
GotMeta == IF localMeta[Basename(Current.key)] = Absent THEN BOOLEAN ELSE {TRUE}
CurrentState == RunStates(run.only)[run.idx]

\* the run after a handler returned, after an exception left main.  handled:
\* the tarballs a handler was run for in this invocation of main (history)
Returned ==
    Advance([run EXCEPT !.todo = Tail(@),
                        !.handled = @ \cup {ReplaceFirst(Current.key, CurrentState,
                                                         "tarballs")}])
Crashed == Idle

Handling(state) ==
    /\ run.phase = "handle"
    /\ run.todo # <<>>
    /\ CurrentState = state

\* EessiTarball.__init__ raises: the run ends
ConstructRaises ==
    /\ run.phase = "handle"
    /\ run.todo # <<>>
    /\ \E got_tar \in GotTar, got_meta \in GotMeta :
         LET self == EessiTarball(Current, CurrentState, got_tar, got_meta)
         IN  /\ self.raised
             /\ localTar' = self.localTar
             /\ localMeta' = self.localMeta
             /\ last' = [NoHandler EXCEPT !.handler = "__init__",
                                          !.tarball = self.remote_tarball_path,
                                          !.raised = TRUE, !.state0 = self.state,
                                          !.state1 = self.state,
                                          !.path0 = self.remote_metadata_path,
                                          !.path1 = self.remote_metadata_path]
    /\ run' = Crashed
    /\ UNCHANGED <<store, github, clone, installs, runs, s3faults, rec>>

(***************************************************************************)
(* The handlers                                                            *)
(***************************************************************************)
\* what a handler execution is remembered by
Executed(self, handler, raised, state1, m, g) ==
    [NoHandler EXCEPT !.handler = handler,
                      !.tarball = self.remote_tarball_path, !.raised = raised,
                      !.state0 = self.state, !.state1 = state1,
                      !.path0 = self.remote_metadata_path, !.path1 = m.path,
                      !.move = m.ret, !.copy = m.copy, !.copy_etag = m.copy_etag,
                      !.etag = self.s3_object_etag, !.src = m.src, !.dst = m.dst,
                      !.copied = m.copied, !.deleted = m.deleted,
                      !.git_moved = g.moved]

\* a wrong update: the state is set whatever the move returned
StateAfter_unconditional(self, m, new_state) == new_state

\* self.state after `if self.s3_move_metadata_file(new_state): self.state = new_state`
StateAfter(self, m, new_state) == IF m.ret = "True" THEN new_state ELSE self.state

\* a wrong remote: the push of a branch GitHub already has is accepted
push_rejected_never(pr_branch) == FALSE

\* git push origin <pr_branch> of a branch made from origin/main is rejected
\* (not a fast-forward) when GitHub has a branch of that name
push_rejected(pr_branch) == pr_branch \in ghBranches

\* handle_new_tarball: the handler of state new
handle_new_tarball ==
    /\ Handling("new")
    /\ \E got_tar \in GotTar, got_meta \in GotMeta, cp \in CopyOutcomes,
          del \in DeleteOutcomes :
         LET self == EessiTarball(Current, "new", got_tar, got_meta)
             next == next_state(self.state)
             pr_branch == Basename(self.remote_tarball_path)
             file_path_staged == ReplaceFirst(self.remote_metadata_path, self.state, next)
             \* self.download(): os.path.exists(None) raises TypeError
             no_tarball == self.local_tarball_path = "None"
             \* git branch <filename> origin/main fails for an existing branch
             branch_exists == pr_branch \in localBranches
             created == [Git EXCEPT !.localBranches = @ \cup {pr_branch},
                                    !.locTree[pr_branch] =
                                        locTree["main"] \cup {file_path_staged}]
             \* git push of the new branch is rejected if GitHub has such a branch
             rejected == push_rejected(pr_branch)
             early == no_tarball \/ branch_exists \/ rejected
             g == IF no_tarball \/ branch_exists THEN Git
                  ELSE IF rejected THEN created
                  ELSE push(created, pr_branch, created.locTree[pr_branch])
             m == IF early THEN NoMove(self)
                  ELSE s3_move_metadata_file(s3meta, self, next, cp, del)
             raised == early \/ m.ret = "raise"
         IN  /\ ~self.raised
             /\ cp \in CopyOutcomesOf(self)
             /\ Faulty(m) => s3faults < MaxS3Faults
             /\ s3faults' = IF Faulty(m) THEN s3faults + 1 ELSE s3faults
             /\ localTar' = self.localTar
             /\ localMeta' = self.localMeta
             /\ ghBranches' = g.ghBranches
             /\ ghTree' = g.ghTree
             /\ localBranches' = g.localBranches
             /\ locTree' = g.locTree
             /\ remoteRefs' = g.remoteRefs
             /\ s3meta' = m.s3
             /\ comment' = IF raised THEN comment
                           ELSE update_sw_repo_comment(comment, self, "ingest_staged")
             /\ last' = Executed(self, "handle_new_tarball", raised,
                                 StateAfter(self, m, next), m, g)
             /\ run' = IF raised THEN Crashed ELSE Returned
    /\ UNCHANGED <<payload, declared, pr, issues, pullRefs, installs, runs, rec>>

\* a wrong test: the open issues are not looked at
no_open_issue_unchecked(title) == TRUE

\* `len([i for i in self.git_repo.get_issues(state='open') if i.title == issue_title]) == 0`
no_open_issue(title) == issues[title] = 0

\* what GitHub's create_pull can do
CreatePullOutcomes == {"created", "exception"}

\* open_approval_request: the handler of state staged
open_approval_request ==
    /\ Handling("staged")
    /\ \E got_tar \in GotTar, got_meta \in GotMeta, cp \in CopyOutcomes,
          del \in DeleteOutcomes, overview_ok \in BOOLEAN, cpr \in CreatePullOutcomes :
         LET self == EessiTarball(Current, "staged", got_tar, got_meta)
             next == next_state(self.state)
             filename == Basename(self.remote_tarball_path)
             g == git_move_metadata_file(Git, self, self.state, next, filename)
             m == IF g.raised THEN NoMove(self)
                  ELSE s3_move_metadata_file(s3meta, self, next, cp, del)
             raised == g.raised \/ m.ret = "raise"
             \* get_contents_overview: tarfile.open(None) raises; so may any tarball
             exception == self.local_tarball_path = "None" \/ ~overview_ok
             \* create_pull needs the head branch on GitHub and no pull request of it
             pull_created == /\ ~exception
                             /\ cpr = "created"
                             /\ filename \in g.ghBranches
                             /\ pr[filename] = "none"
             issue_title == <<"overview", self.remote_tarball_path>>
         IN  /\ ~self.raised
             /\ cp \in CopyOutcomesOf(self)
             /\ Faulty(m) => s3faults < MaxS3Faults
             /\ s3faults' = IF Faulty(m) THEN s3faults + 1 ELSE s3faults
             /\ localTar' = self.localTar
             /\ localMeta' = self.localMeta
             /\ ghBranches' = g.ghBranches
             /\ ghTree' = g.ghTree
             /\ localBranches' = g.localBranches
             /\ locTree' = g.locTree
             /\ remoteRefs' = g.remoteRefs
             /\ s3meta' = m.s3
             /\ pr' = IF ~raised /\ pull_created THEN [pr EXCEPT ![filename] = "open"]
                      ELSE pr
             /\ comment' = IF ~raised /\ pull_created
                           THEN update_sw_repo_comment(comment, self, "ingest_pr_opened")
                           ELSE comment
             \* the issue is created in the except clause of create_pull only
             /\ issues' = IF ~raised /\ ~exception /\ ~pull_created /\ no_open_issue(issue_title)
                          THEN [issues EXCEPT ![issue_title] = @ + 1]
                          ELSE issues
             /\ last' = [Executed(self, "open_approval_request", raised, self.state, m, g)
                         EXCEPT !.pr_found =
                             IF raised THEN "na"
                             ELSE IF pull_created THEN "created"
                             ELSE IF exception THEN "overview_exception"
                             ELSE "create_pull_exception",
                                !.issue =
                             IF raised \/ exception \/ pull_created THEN "na"
                             ELSE IF no_open_issue(issue_title) THEN "created"
                             ELSE "exists"]
             /\ run' = IF raised THEN Crashed ELSE Returned
    /\ UNCHANGED <<payload, declared, pullRefs, installs, runs, rec>>

\* f'ingest_{new_state}'
ingest_template(new_state) == "ingest_" \o new_state

\* mark_new_state: the comment first, then the move in the clone and the bucket
mark_new_state(self, new_state, old_state, cp, del) ==
    LET g == git_move_metadata_file(Git, self, old_state, new_state, "main")
        m == IF g.raised THEN NoMove(self)
             ELSE s3_move_metadata_file(s3meta, self, new_state, cp, del)
    IN  [comment |-> update_sw_repo_comment(comment, self, ingest_template(new_state)),
         g |-> g, m |-> m, state |-> StateAfter(self, m, new_state),
         raised |-> g.raised \/ m.ret = "raise"]

\* a wrong mapping: a closed pull request approves, merged or not
disposition_lenient(found, state) ==
    IF found = "open" THEN [new_state |-> "None", old_state |-> "None"]
    ELSE [new_state |-> "approved", old_state |-> state]

\* a wrong mapping: every pull request is taken to be open
disposition_never(found, state) == [new_state |-> "None", old_state |-> "None"]

\* a wrong mapping: a merged pull request rejects, a closed one approves
disposition_swapped(found, state) ==
    IF found = "open" THEN [new_state |-> "None", old_state |-> "None"]
    ELSE IF found = "closed" THEN [new_state |-> "approved", old_state |-> state]
    ELSE [new_state |-> "rejected", old_state |-> "staged"]

\* check_pr_status, for a pull request that was found: the new state it marks
\* and the old state it passes to mark_new_state; nothing for an open one
disposition(found, state) ==
    IF found = "open" THEN [new_state |-> "None", old_state |-> "None"]
    ELSE IF found = "closed" THEN [new_state |-> "rejected", old_state |-> "staged"]
    ELSE [new_state |-> "approved", old_state |-> state]

\* check_pr_status: the handler of state pr_opened
check_pr_status ==
    /\ Handling("pr_opened")
    /\ \E got_tar \in GotTar, got_meta \in GotMeta, cp \in CopyOutcomes,
          del \in DeleteOutcomes :
         LET self == EessiTarball(Current, "pr_opened", got_tar, got_meta)
             git_branch == Basename(self.remote_tarball_path)
             found == get_approval_pr(self)
             no_pr == found \in {"no_branch", "no_pull"}
             to == disposition(found, self.state)
             marked == mark_new_state(self, to.new_state, to.old_state, cp, del)
             \* get_git_ref raises UnknownObjectException for a branch GitHub has not
             no_ref == git_branch \notin ghBranches
             deleted == [Git EXCEPT !.ghBranches = @ \ {git_branch}]
             rewound == s3_move_metadata_file(s3meta, self, "staged", cp, del)
             wait == ~no_pr /\ to.new_state = "None"
             g == IF no_pr THEN (IF no_ref THEN Git ELSE deleted)
                  ELSE IF wait THEN Git ELSE marked.g
             m == IF no_pr THEN (IF no_ref THEN NoMove(self) ELSE rewound)
                  ELSE IF wait THEN NoMove(self) ELSE marked.m
             raised == IF no_pr THEN no_ref \/ m.ret = "raise"
                       ELSE IF wait THEN FALSE ELSE marked.raised
             state1 == IF no_pr THEN StateAfter(self, m, "staged")
                       ELSE IF wait THEN self.state ELSE marked.state
         IN  /\ ~self.raised
             /\ cp \in CopyOutcomesOf(self)
             /\ Faulty(m) => s3faults < MaxS3Faults
             /\ s3faults' = IF Faulty(m) THEN s3faults + 1 ELSE s3faults
             /\ localTar' = self.localTar
             /\ localMeta' = self.localMeta
             /\ ghBranches' = g.ghBranches
             /\ ghTree' = g.ghTree
             /\ localBranches' = g.localBranches
             /\ locTree' = g.locTree
             /\ remoteRefs' = g.remoteRefs
             /\ s3meta' = m.s3
             /\ comment' = IF no_pr \/ wait THEN comment ELSE marked.comment
             /\ last' = [Executed(self, "check_pr_status", raised, state1, m, g)
                         EXCEPT !.pr_found = found,
                                !.branch_ref = IF ~no_pr THEN "na"
                                               ELSE IF no_ref THEN "missing" ELSE "found",
                                !.branch_deleted = no_pr /\ ~no_ref]
             /\ run' = IF raised THEN Crashed ELSE Returned
    /\ UNCHANGED <<payload, declared, pr, issues, pullRefs, installs, runs, rec>>

\* a wrong check: every checksum passes
verify_checksum_skipped(self) == TRUE

\* verify_checksum: the checksum of the local tarball file against the metadata
verify_checksum(self) ==
    sha256sum(self.localTar[self.local_tarball_path]) = declared[self.metadata]

\* what the ingestion script can exit with, and what send_slack_message can do
\* ("off": no notification is configured)
ExitCodes == {0, 1}
SlackOutcomes == {"off", "sent", "error"}

\* a wrong test: every exit code counts as success
returncode_ignored(returncode) == TRUE

\* `if ingest_cmd.returncode == 0:`
returncode_ok(returncode) == returncode = 0

\* a wrong lookup: no open issue is ever found
issue_exists_blind(title) == FALSE

\* issue_exists(title, state='open'): an open issue has the title
issue_exists(title) == issues[title] > 0

\* ingest: the handler of state approved
ingest ==
    /\ Handling("approved")
    /\ \E got_tar \in GotTar, got_meta \in GotMeta, cp \in CopyOutcomes,
          del \in DeleteOutcomes, returncode \in ExitCodes, slack \in SlackOutcomes :
         LET self == EessiTarball(Current, "approved", got_tar, got_meta)
             \* self.download(): os.path.exists(None) raises TypeError
             no_tarball == self.local_tarball_path = "None"
             verified == ~no_tarball /\ verify_checksum(self)
             ran == verified
             done == ran /\ returncode_ok(returncode)
             \* send_slack_message raises ValueError on a response other than 200
             slack_raised == done /\ slack = "error"
             next == next_state(self.state)
             g == IF done /\ ~slack_raised
                  THEN git_move_metadata_file(Git, self, self.state, next, "main")
                  ELSE Git
             m == IF done /\ ~slack_raised /\ ~g.raised
                  THEN s3_move_metadata_file(s3meta, self, next, cp, del)
                  ELSE NoMove(self)
             raised == no_tarball \/ slack_raised \/ g.raised \/ m.ret = "raise"
             issue_title == <<"ingest", self.remote_tarball_path>>
         IN  /\ ~self.raised
             /\ cp \in CopyOutcomesOf(self)
             /\ Faulty(m) => s3faults < MaxS3Faults
             /\ s3faults' = IF Faulty(m) THEN s3faults + 1 ELSE s3faults
             /\ localTar' = self.localTar
             /\ localMeta' = self.localMeta
             /\ installs' = IF ran THEN [installs EXCEPT ![self.remote_tarball_path] = @ + 1]
                            ELSE installs
             /\ comment' = IF done /\ ~slack_raised
                           THEN update_sw_repo_comment(comment, self, "ingest_done")
                           ELSE comment
             /\ ghBranches' = g.ghBranches
             /\ ghTree' = g.ghTree
             /\ localBranches' = g.localBranches
             /\ locTree' = g.locTree
             /\ remoteRefs' = g.remoteRefs
             /\ s3meta' = m.s3
             /\ issues' = IF ran /\ ~done /\ ~issue_exists(issue_title)
                          THEN [issues EXCEPT ![issue_title] = @ + 1]
                          ELSE issues
             /\ last' = [Executed(self, "ingest", raised, StateAfter(self, m, next), m, g)
                         EXCEPT !.checksum = IF no_tarball THEN "na"
                                             ELSE IF verified THEN "match" ELSE "mismatch",
                                !.installer = IF ~ran THEN "none"
                                              ELSE IF returncode = 0 THEN "zero"
                                              ELSE "nonzero",
                                !.issue = IF ~ran \/ done THEN "na"
                                          ELSE IF issue_exists(issue_title) THEN "exists"
                                          ELSE "created"]
             /\ run' = IF raised THEN Crashed ELSE Returned
    /\ UNCHANGED <<payload, declared, pr, pullRefs, runs, rec>>

(***************************************************************************)
(* The reviewers of the staging repository                                 *)
(***************************************************************************)
\* The pull request of a branch is merged: its files enter main
MergePR(b) ==
    /\ pr[b] = "open"
    /\ pr' = [pr EXCEPT ![b] = "merged"]
    /\ ghTree' = [ghTree EXCEPT !["main"] = @ \cup ghTree[b]]
    /\ UNCHANGED <<store, cache, ghBranches, issues, comment, clone, installs, run, runs,
                   s3faults, last, rec>>

\* The pull request of a branch is closed without a merge
ClosePR(b) ==
    /\ pr[b] = "open"
    /\ pr' = [pr EXCEPT ![b] = "closed"]
    /\ UNCHANGED <<store, cache, ghBranches, ghTree, issues, comment, clone, installs, run,
                   runs, s3faults, last, rec>>

\* A second invocation while main runs: the decorator raises PidFileError before
\* main's body, __main__ catches it and error() exits with code 1.
Refused ==
    /\ pidfile_locked
    /\ runs < MaxRuns
    /\ runs' = runs + 1
    /\ last' = [NoHandler EXCEPT !.handler = "PidFileError", !.raised = TRUE]
    /\ UNCHANGED <<store, cache, github, clone, installs, run, s3faults, rec>>

Next ==
    \/ \E args \in Args, fresh \in BOOLEAN : StartRun(args.state, args.list_only, fresh)
    \/ Refused
    \/ ListState
    \/ ConstructRaises
    \/ handle_new_tarball
    \/ open_approval_request
    \/ check_pr_status
    \/ ingest
    \/ \E b \in Names : MergePR(b)
    \/ \E b \in Names : ClosePR(b)

Spec == Init /\ [][Next]_vars

(***************************************************************************)
(* The methods of a record called directly: a record is constructed for a  *)
(* listed object as main does, and mark_new_state (the move in the         *)
(* repository followed by the move in the bucket) is called on it any      *)
(* number of times.                                                        *)
(***************************************************************************)
\* number of calls of mark_new_state
MaxMarks == 2

\* The tarballs' metadata objects are under one state that has a handler, and
\* main of the repository has the files there or not.
InitRecord ==
    /\ \E state \in DOMAIN states_handler, in_main \in BOOLEAN :
         /\ s3meta = [k \in Keys |-> IF k[1] = state THEN "e1" ELSE NoObj]
         /\ ghTree = [b \in Branches |->
                         IF b = "main" /\ in_main
                         THEN {MetaPath(state, t) : t \in Tarballs} ELSE {}]
         /\ locTree = ghTree
    /\ payload = [t \in Tarballs |-> "c1"]
    /\ declared = [t \in Tarballs |-> sha256sum("c1")]
    /\ localTar = [b \in Names |-> Absent]
    /\ localMeta = [b \in Names |-> Absent]
    /\ ghBranches = {}
    /\ pr = [b \in Names |-> "none"]
    /\ issues = [i \in {"ingest", "overview"} \X Tarballs |-> 0]
    /\ comment = [t \in Tarballs |-> <<>>]
    /\ localBranches = {}
    /\ remoteRefs = {}
    /\ pullRefs = {}
    /\ installs = [t \in Tarballs |-> 0]
    /\ run = Idle
    /\ runs = 0
    /\ s3faults = 0
    /\ last = NoHandler
    /\ rec = NoRecord

\* EessiTarball(tarball, state, obj, ...) for an object listed under `state`
Construct(state) ==
    /\ rec = NoRecord
    /\ \E i \in DOMAIN find_tarballs(state) :
         LET self == EessiTarball(find_tarballs(state)[i], state, TRUE, TRUE)
         IN  /\ rec' = [state |-> self.state,
                        remote_tarball_path |-> self.remote_tarball_path,
                        remote_metadata_path |-> self.remote_metadata_path,
                        s3_object_etag |-> self.s3_object_etag,
                        metadata |-> self.metadata]
             /\ localTar' = self.localTar
             /\ localMeta' = self.localMeta
    /\ last' = NoHandler
    /\ UNCHANGED <<store, github, clone, installs, run, runs, s3faults>>

\* rec.mark_new_state(new_state, old_state)
Relocate(new_state, old_state) ==
    /\ rec # NoRecord
    /\ Len(comment[rec.metadata]) < MaxMarks
    /\ \E cp \in CopyOutcomesOf(rec), del \in DeleteOutcomes :
         LET marked == mark_new_state(rec, new_state, old_state, cp, del)
         IN  /\ Faulty(marked.m) => s3faults < MaxS3Faults
             /\ s3faults' = IF Faulty(marked.m) THEN s3faults + 1 ELSE s3faults
             /\ ghBranches' = marked.g.ghBranches
             /\ ghTree' = marked.g.ghTree
             /\ localBranches' = marked.g.localBranches
             /\ locTree' = marked.g.locTree
             /\ remoteRefs' = marked.g.remoteRefs
             /\ s3meta' = marked.m.s3
             /\ comment' = marked.comment
             /\ rec' = [rec EXCEPT !.state = marked.state,
                                   !.remote_metadata_path = marked.m.path]
             /\ last' = [Executed(rec, "mark_new_state", marked.raised, marked.state,
                                  marked.m, marked.g)
                         EXCEPT !.new_state = new_state, !.old_state = old_state]
    /\ UNCHANGED <<payload, declared, cache, pr, issues, pullRefs, installs, run, runs>>

\* run_handler: nothing for an unset state, else the handler the table has for
\* the state; the lookup self.states[self.state] raises KeyError for a state
\* the table does not have
run_handler(self) ==
    IF self.state = "None" THEN "return"
    ELSE IF self.state \in DOMAIN states_handler THEN states_handler[self.state]
    ELSE "KeyError"

\* rec.run_handler() on a record whose state has no handler (the handlers
\* themselves are the actions of main's runs)
RunHandler ==
    /\ rec # NoRecord
    /\ run_handler(rec) \in {"return", "KeyError"}
    /\ last' = [NoHandler EXCEPT !.handler = "run_handler",
                                 !.tarball = rec.remote_tarball_path,
                                 !.raised = run_handler(rec) = "KeyError",
                                 !.state0 = rec.state, !.state1 = rec.state,
                                 !.path0 = rec.remote_metadata_path,
                                 !.path1 = rec.remote_metadata_path]
    /\ UNCHANGED <<store, cache, github, clone, installs, run, runs, s3faults, rec>>

\* the record is dropped
Discard ==
    /\ rec # NoRecord
    /\ rec' = NoRecord
    /\ UNCHANGED <<store, cache, github, clone, installs, run, runs, s3faults, last>>

NextRecord ==
    \/ \E state \in StateSet : Construct(state)
    \/ \E new_state \in StateSet, old_state \in StateSet : Relocate(new_state, old_state)
    \/ RunHandler
    \/ Discard

SpecRecord == InitRecord /\ [][NextRecord]_vars

\* git_move_metadata_file whose `git push origin <branch>` fails (GitCommandError):
\* the move is committed in the clone and GitHub is left as it was
git_move_push_fails(g, self, old_state, new_state, branch) ==
    LET metadata_path == Tail(self.remote_metadata_path)
        file_path_old == <<old_state>> \o metadata_path
        file_path_new == <<new_state>> \o metadata_path
        c == checkout(g, branch)
    IN  IF c.raised THEN c
        ELSE IF file_path_old \in c.locTree[branch]
             THEN [c EXCEPT !.locTree[branch] = (@ \ {file_path_old}) \cup {file_path_new},
                            !.raised = TRUE]
             ELSE c

\* rec.mark_new_state(new_state) with old_state = self.state that stops at the push: the comment
\* was updated and the move committed in the clone, the exception ends the call
RelocateUnpushed(new_state, old_state) ==
    /\ rec # NoRecord
    /\ Len(comment[rec.metadata]) < MaxMarks
    /\ LET g == git_move_push_fails(Git, rec, old_state, new_state, "main")
       IN  /\ g.raised
           /\ locTree' = g.locTree
           /\ localBranches' = g.localBranches
           /\ comment' = update_sw_repo_comment(comment, rec, ingest_template(new_state))
           /\ last' = [Executed(rec, "mark_new_state", TRUE, rec.state, NoMove(rec), g)
                       EXCEPT !.new_state = new_state, !.old_state = old_state]
    /\ UNCHANGED <<store, cache, ghBranches, ghTree, pr, issues, remoteRefs, pullRefs,
                   installs, run, runs, s3faults, rec>>

NextGitMove ==
    \/ \E state \in StateSet : Construct(state)
    \/ \E new_state \in StateSet : Relocate(new_state, rec.state)
    \/ \E new_state \in StateSet : RelocateUnpushed(new_state, rec.state)
    \/ Discard

SpecGitMove == InitRecord /\ [][NextGitMove]_vars

(***************************************************************************)
(* The end-to-end scenarios: full runs (no --state, no --list) in which no *)
(* external operation fails, on tarballs whose checksum matches the        *)
(* metadata, while the reviewers merge or close the pull requests.         *)
(***************************************************************************)
\* No external operation failed in the handler execution: no exception left
\* the handler, the move in the bucket succeeded, the pull request was opened,
\* the ingestion script exited with 0.
FailureFree ==
    /\ ~last.raised
    /\ last.handler = "handle_new_tarball" => last.move = "True"
    /\ last.handler = "open_approval_request" =>
          last.move = "True" /\ last.pr_found = "created"
    /\ last.handler = "check_pr_status" => last.move \in {"True", "none"}
    /\ last.handler = "ingest" => last.move = "True" /\ last.installer = "zero"

InitScenario ==
    /\ Init
    /\ \A t \in Tarballs : declared[t] = sha256sum(payload[t])

ScenarioRun == \E fresh \in BOOLEAN : StartRun("all", FALSE, fresh)
ScenarioNew == handle_new_tarball /\ FailureFree'
ScenarioStaged == open_approval_request /\ FailureFree'
ScenarioPrOpened == check_pr_status /\ FailureFree'
ScenarioApproved == ingest /\ FailureFree'
ScenarioMerge == \E b \in Names : MergePR(b)
ScenarioClose == \E b \in Names : ClosePR(b)

NextScenario ==
    \/ ScenarioRun
    \/ ListState
    \/ ScenarioNew
    \/ ScenarioStaged
    \/ ScenarioPrOpened
    \/ ScenarioApproved
    \/ ScenarioMerge
    \/ ScenarioClose

\* main is invoked again and again, and an invocation runs to its end
SpecScenario ==
    /\ InitScenario
    /\ [][NextScenario]_vars
    /\ WF_vars(ScenarioRun)
    /\ WF_vars(ListState)
    /\ WF_vars(ScenarioNew)
    /\ WF_vars(ScenarioStaged)
    /\ WF_vars(ScenarioPrOpened)
    /\ WF_vars(ScenarioApproved)

\* Runs in which one thing fails: the first request for a tarball's branch
\* (get_contents_overview or create_pull raises). Every later step has no
\* failure of its own: a move in the store succeeds, the overview is made, and
\* create_pull fails only for a head branch GitHub does not have.
RecoveryRequestFails ==
    /\ open_approval_request
    /\ MetaPath("staged", last'.tarball) \in ghTree[Basename(last'.tarball)]
    /\ ~last'.raised /\ last'.move = "True"
    /\ last'.pr_found \in {"overview_exception", "create_pull_exception"}

\* main is invoked once more after the counted runs, on the clone it has
FurtherRun ==
    /\ ~pidfile_locked
    /\ runs = MaxRuns
    /\ run' = [phase |-> "list", only |-> "all", list_only |-> FALSE, idx |-> 1,
               todo |-> <<>>, handled |-> {}]
    /\ last' = NoHandler
    /\ UNCHANGED <<store, cache, github, clone, installs, runs, s3faults, rec>>

RecoveryStaged ==
    /\ open_approval_request
    /\ IF last'.raised THEN last'.move = "none" ELSE last'.move = "True"
    /\ \/ last'.pr_found \in {"created", "na"}
       \/ /\ last'.pr_found = "create_pull_exception"
          /\ Basename(last'.tarball) \notin ghBranches'

RecoveryPrOpened ==
    /\ check_pr_status
    /\ last'.move \in {"True", "none"}

NextRecovery ==
    \/ ScenarioRun
    \/ FurtherRun
    \/ ListState
    \/ ScenarioNew
    \/ RecoveryRequestFails
    \/ RecoveryStaged
    \/ RecoveryPrOpened
    \/ ScenarioApproved
    \/ ScenarioMerge
    \/ ScenarioClose

\* main is invoked again and again, and an invocation runs to its end
SpecRecovery ==
    /\ InitScenario
    /\ [][NextRecovery]_vars
    /\ WF_vars(ScenarioRun)
    /\ WF_vars(FurtherRun)
    /\ WF_vars(ListState)
    /\ WF_vars(ScenarioNew)
    /\ WF_vars(RecoveryStaged)
    /\ WF_vars(RecoveryPrOpened)
    /\ WF_vars(ScenarioApproved)

(***************************************************************************)
(* Runs of main over a download directory that already has files: a file   *)
(* with the tarball's name is there from an earlier run, downloaded before *)
(* the payload object was uploaded again or for a tarball with the same    *)
(* file name in another directory of the bucket.                           *)
(***************************************************************************)
InitCache ==
    /\ s3meta = [k \in Keys |-> IF k[1] = "new" THEN "e1" ELSE NoObj]
    /\ payload \in [Tarballs -> Contents]
    /\ declared \in [Tarballs -> {sha256sum(c) : c \in Contents}]
    /\ localTar \in [Names -> Contents \cup {Absent}]
    /\ localMeta = [b \in Names |-> Absent]
    /\ ghBranches = {}
    /\ ghTree = [b \in Branches |-> {}]
    /\ pr = [b \in Names |-> "none"]
    /\ issues = [i \in {"ingest", "overview"} \X Tarballs |-> 0]
    /\ comment = [t \in Tarballs |-> <<>>]
    /\ localBranches = {}
    /\ locTree = [b \in Branches |-> {}]
    /\ remoteRefs = {}
    /\ pullRefs = {}
    /\ installs = [t \in Tarballs |-> 0]
    /\ run = Idle
    /\ runs = 0
    /\ s3faults = 0
    /\ last = NoHandler
    /\ rec = NoRecord

SpecCache == InitCache /\ [][Next]_vars

(***************************************************************************)
(* The branch of a tarball, and with it its pull request, as a function of *)
(* the tarball's path: create_branch_for_tarball and get_approval_pr for   *)
(* tarballs in several directories of the bucket.                          *)
(***************************************************************************)
Directories == {"d1", "d2", "d3"}
Filenames == {"foo", "bar"}
Paths == {<<"tarballs", d, f>> : d \in Directories, f \in Filenames}

\* filename = os.path.basename(self.remote_tarball_path): the branch's name
create_branch_for_tarball(remote_tarball_path) == Basename(remote_tarball_path)

\* the branches resolved so far, by tarball path
ResolvedBranches == IF rec = NoRecord THEN {} ELSE DOMAIN rec.pr_branch

\* the branch of one more tarball is resolved
ResolveBranch(path) ==
    /\ path \notin ResolvedBranches
    /\ rec' = [state |-> "branches",
               pr_branch |-> [q \in ResolvedBranches \cup {path} |->
                                 create_branch_for_tarball(q)]]
    /\ UNCHANGED <<store, cache, github, clone, installs, run, runs, s3faults, last>>

NextBranch == \E path \in Paths : ResolveBranch(path)

SpecBranch == Init /\ [][NextBranch]_vars

\* get_contents_overview: the members of a tarball by what the summary does with
\* them: directories <prefix>/software/<name>/<version>, files
\* <prefix>/modules/<category>/<name>/*.lua, members outside software and
\* modules, and the remaining members below software or modules
MemberKinds == {"swdirs", "modfiles", "other", "below"}
MemberCounts == {0, 1, 49, 50}
Members == [MemberKinds -> MemberCounts]

\* tar_num_members = len(members)
tar_num_members(members) ==
    members["swdirs"] + members["modfiles"] + members["other"] + members["below"]

\* a wrong threshold: a tarball of 100 members is still listed in full
full_listing_upto(n) == n <= 100

\* if tar_num_members < 100: the full listing
full_listing(n) == n < 100

\* members_list = sorted(swdirs + modfiles + other)
summary(members) == [members EXCEPT !["below"] = 0]

get_contents_overview(members) ==
    IF full_listing(tar_num_members(members))
    THEN [tar_members_desc |-> "Full listing", members_list |-> members,
          total |-> tar_num_members(members)]
    ELSE [tar_members_desc |-> "Summarized overview", members_list |-> summary(members),
          total |-> tar_num_members(members)]

\* a downloaded tarball with any members
InitOverview ==
    /\ \E members \in Members : rec = [state |-> "tar", members |-> members]
    /\ s3meta = [k \in Keys |-> NoObj]
    /\ payload = [t \in Tarballs |-> "c1"]
    /\ declared = [t \in Tarballs |-> sha256sum("c1")]
    /\ localTar = [b \in Names |-> "c1"]
    /\ localMeta = [b \in Names |-> Absent]
    /\ ghBranches = {}
    /\ ghTree = [b \in Branches |-> {}]
    /\ pr = [b \in Names |-> "none"]
    /\ issues = [i \in {"ingest", "overview"} \X Tarballs |-> 0]
    /\ comment = [t \in Tarballs |-> <<>>]
    /\ localBranches = {}
    /\ locTree = ghTree
    /\ remoteRefs = {}
    /\ pullRefs = {}
    /\ installs = {}
    /\ run = Idle
    /\ runs = 0
    /\ s3faults = 0
    /\ last = NoHandler

Overview ==
    /\ rec.state = "tar"
    /\ rec' = [state |-> "overview", members |-> rec.members,
               overview |-> get_contents_overview(rec.members)]
    /\ UNCHANGED <<store, cache, github, clone, installs, run, runs, s3faults, last>>

NextOverview == Overview

SpecOverview == InitOverview /\ [][NextOverview]_vars

\* The caches of utils.py. GitHub has three sponsoring repositories with pull
\* requests of the same numbers, each with one comment; link2pr of a metadata
\* file names the repository, the number of the pull request and the comment
Repos == {"r1", "r2", "r3"}
PrNumbers == {1, 2}
CommentId(repo, number) == <<"comment", repo, number>>
Link2Pr == {[repo |-> repo, pr |-> number, pr_comment_id |-> CommentId(repo, number)] :
               repo \in Repos, number \in PrNumbers}

\* github_instance.get_repo(full_repo_name)
get_repo(full_repo_name) == [repo |-> full_repo_name]
\* repo_instance.get_pull(int(pr_number))
get_pull(repo_instance, pr_number) == [repo |-> repo_instance.repo, pr |-> pr_number]
\* pr_instance.get_issue_comment(int(pr_comment_id)): the comment of that id in
\* the repository of the pull request, UnknownObjectException if it has none
get_issue_comment(pr_instance, pr_comment_id) ==
    IF pr_comment_id[2] = pr_instance.repo
    THEN [repo |-> pr_instance.repo, id |-> pr_comment_id, found |-> TRUE]
    ELSE [repo |-> pr_instance.repo, id |-> pr_comment_id, found |-> FALSE]

\* a lookup that fills a cache on a miss and answers from the cache
cached(cache_dict, key, value) ==
    IF key \in DOMAIN cache_dict THEN cache_dict ELSE (key :> value) @@ cache_dict

get_gh_repo(gh_repo_cache, full_repo_name) ==
    cached(gh_repo_cache, full_repo_name, get_repo(full_repo_name))
get_gh_pr(gh_pr_cache, pr_number, repo_instance) ==
    cached(gh_pr_cache, pr_number, get_pull(repo_instance, pr_number))
get_gh_comment(gh_comment_cache, pr_comment_id, pr_instance) ==
    cached(gh_comment_cache, pr_comment_id, get_issue_comment(pr_instance, pr_comment_id))

\* the fields of a record before the metadata was read
NoLink2Pr == [repo |-> "None", pr |-> 0, pr_comment_id |-> <<>>]
NoComment == [repo |-> "None", id |-> <<>>, found |-> FALSE]

\* shared_vars.py: the three caches are empty when the process starts
InitLookup ==
    /\ rec = [state |-> "lookups", gh_repo_cache |-> <<>>, gh_pr_cache |-> <<>>,
              gh_comment_cache |-> <<>>, link2pr |-> NoLink2Pr, sw_repo |-> get_repo("None"),
              sw_pr |-> get_pull(get_repo("None"), 0), sw_pr_comment |-> NoComment,
              raised |-> FALSE]
    /\ s3meta = [k \in Keys |-> NoObj]
    /\ payload = [t \in Tarballs |-> "c1"]
    /\ declared = [t \in Tarballs |-> sha256sum("c1")]
    /\ localTar = [b \in Names |-> Absent]
    /\ localMeta = [b \in Names |-> Absent]
    /\ ghBranches = {}
    /\ ghTree = [b \in Branches |-> {}]
    /\ pr = [b \in Names |-> "none"]
    /\ issues = [i \in {"ingest", "overview"} \X Tarballs |-> 0]
    /\ comment = [t \in Tarballs |-> <<>>]
    /\ localBranches = {}
    /\ locTree = ghTree
    /\ remoteRefs = {}
    /\ pullRefs = {}
    /\ installs = {}
    /\ run = Idle
    /\ runs = 0
    /\ s3faults = 0
    /\ last = NoHandler

\* EessiTarball.__init__ reads link2pr of one more metadata file: the three
\* lookups; the exception of a lookup ends the constructor
Lookup(link2pr) ==
    LET repos == get_gh_repo(rec.gh_repo_cache, link2pr.repo)
        sw_repo == repos[link2pr.repo]
        prs == get_gh_pr(rec.gh_pr_cache, link2pr.pr, sw_repo)
        sw_pr == prs[link2pr.pr]
        found == get_gh_comment(rec.gh_comment_cache, link2pr.pr_comment_id, sw_pr)
        sw_pr_comment == found[link2pr.pr_comment_id]
        raised == ~sw_pr_comment.found
    IN  /\ rec.state = "lookups"
        /\ rec' = [state |-> "lookups", gh_repo_cache |-> repos, gh_pr_cache |-> prs,
                   gh_comment_cache |-> IF raised THEN rec.gh_comment_cache ELSE found,
                   link2pr |-> link2pr, sw_repo |-> sw_repo, sw_pr |-> sw_pr,
                   sw_pr_comment |-> IF raised THEN NoComment ELSE sw_pr_comment,
                   raised |-> raised]
        /\ UNCHANGED <<store, cache, github, clone, installs, run, runs, s3faults, last>>

NextLookup == \E link2pr \in Link2Pr : Lookup(link2pr)

SpecLookup == InitLookup /\ [][NextLookup]_vars

\* The paths main derives from the listed keys. A key is <state>/<dir>/<name>
\* with the name a sequence of characters ending in the metadata extension
MaxNameLen == 3
metadata_ext == <<".", "m", "e", "t", "a", ".", "t", "x", "t">>
NameChars == {"t", "z", "."}
TarballNames == UNION {[1..n -> NameChars] : n \in 1..MaxNameLen}
MetadataFiles == {<<state, "d1", name \o metadata_ext>> :
                     state \in StateSet, name \in TarballNames}

\* str.rstrip(chars) removes every trailing character that is in chars
RECURSIVE rstrip(_, _)
rstrip(str, chars) ==
    IF str # <<>> /\ \E i \in 1..Len(chars) : chars[i] = str[Len(str)]
    THEN rstrip(SubSeq(str, 1, Len(str) - 1), chars)
    ELSE str

\* main: tarball = metadata_file.replace(state, 'tarballs', 1).rstrip(metadata_ext);
\* the characters before the name ('/') are not in the extension
tarball_of(metadata_file, state) ==
    LET replaced == ReplaceFirst(metadata_file, state, "tarballs")
    IN  [replaced EXCEPT ![Len(replaced)] = rstrip(@, metadata_ext)]

\* EessiTarball.__init__:
\* remote_metadata_path = tarball_path.replace('tarballs', tarball_state, 1) + metadata_ext
remote_metadata_path(tarball_path, tarball_state) ==
    LET replaced == ReplaceFirst(tarball_path, "tarballs", tarball_state)
    IN  [replaced EXCEPT ![Len(replaced)] = @ \o metadata_ext]

\* a key listed under a state
InitPaths ==
    /\ \E metadata_file \in MetadataFiles :
         rec = [state |-> "listed", metadata_file |-> metadata_file]
    /\ s3meta = [k \in Keys |-> NoObj]
    /\ payload = [t \in Tarballs |-> "c1"]
    /\ declared = [t \in Tarballs |-> sha256sum("c1")]
    /\ localTar = [b \in Names |-> Absent]
    /\ localMeta = [b \in Names |-> Absent]
    /\ ghBranches = {}
    /\ ghTree = [b \in Branches |-> {}]
    /\ pr = [b \in Names |-> "none"]
    /\ issues = [i \in {"ingest", "overview"} \X Tarballs |-> 0]
    /\ comment = [t \in Tarballs |-> <<>>]
    /\ localBranches = {}
    /\ locTree = ghTree
    /\ remoteRefs = {}
    /\ pullRefs = {}
    /\ installs = {}
    /\ run = Idle
    /\ runs = 0
    /\ s3faults = 0
    /\ last = NoHandler

\* main derives the path of the tarball and constructs the record
DerivePaths ==
    /\ rec.state = "listed"
    /\ LET state == rec.metadata_file[1]
           tarball == tarball_of(rec.metadata_file, state)
       IN  rec' = [state |-> "constructed", metadata_file |-> rec.metadata_file,
                   tarball_state |-> state, remote_tarball_path |-> tarball,
                   remote_metadata_path |-> remote_metadata_path(tarball, state)]
    /\ UNCHANGED <<store, cache, github, clone, installs, run, runs, s3faults, last>>

NextPaths == DerivePaths

SpecPaths == InitPaths /\ [][NextPaths]_vars

(***************************************************************************)
(* Properties                                                              *)
(***************************************************************************)
\* the state prefixes under which a tarball has a metadata object
Prefixes(t) == {s \in StateSet : s3meta[MetaPath(s, t)] # NoObj}

\* the step is a handler execution (the reviewers' steps leave run alone, the
\* steps of main clear last)
HandlerStep == run' # run /\ last'.handler \notin {"none", "__init__"}

\* the handler of the step was `handler`, run for tarball t
Ran(handler, t) == HandlerStep /\ last'.handler = handler /\ last'.tarball = t

\* C1: between runs, every tarball has at most one metadata object over all
\* state prefixes, also after failed moves in the bucket.
C1_AtMostOneMetadataObject ==
    run.phase = "idle" => \A t \in Tarballs : Cardinality(Prefixes(t)) <= 1

C3_DeleteOnlyAfterVerifiedCopy ==
    /\ [][\A k \in Keys :
            s3meta[k] # NoObj /\ s3meta'[k] = NoObj =>
                /\ last'.src = k
                /\ last'.copy = "result"
                /\ last'.copy_etag = last'.etag
                /\ s3meta'[last'.dst] = last'.etag]_vars
    /\ [](\/ last.copy \in {"exception", "no_result"}
          \/ (last.copy = "result" /\ last.copy_etag # last.etag)
          => ~last.deleted /\ last.move = "False" /\ s3meta[last.src] # NoObj)

\* a move whose copy returned another ETag than the listed one
C3_Witness ==
    /\ last.copy = "result"
    /\ last.copy_etag # last.etag
    /\ last.move = "False"

\* C4: when the move in the bucket returns False in the handler of new, of
\* pr_opened (the rewind included) or of approved, the record's state and its
\* remote metadata path are what they were before the handler ran.
C4_FailedMoveKeepsRecord ==
    /\ last.handler \in {"handle_new_tarball", "check_pr_status", "ingest"}
    /\ last.move = "False"
    => /\ last.state1 = last.state0
       /\ last.path1 = last.path0
       /\ last.path1 = MetaPath(last.state1, last.tarball)

\* the rewind of check_pr_status with a failed move
C4_Witness ==
    /\ last.handler = "check_pr_status"
    /\ last.branch_deleted
    /\ last.move = "False"

\* the checksum of the local tarball file differs from the declared one
ChecksumDiffers(t) ==
    /\ localTar[Basename(t)] # Absent
    /\ sha256sum(localTar[Basename(t)]) # declared[t]

\* C5: when the checksum of the downloaded tarball differs from the one in the
\* metadata, ingest does not run the ingestion script, moves nothing in the
\* clone, on GitHub or in the bucket, and leaves the state approved.
C5_ChecksumGate ==
    [][\A t \in Tarballs :
         Ran("ingest", t) /\ ChecksumDiffers(t)' =>
            /\ last'.installer = "none"
            /\ last'.state1 = "approved"
            /\ UNCHANGED <<s3meta, github, clone, installs>>]_vars

\* ingest ran on a tarball whose checksum differs
C5_Witness ==
    /\ last.handler = "ingest"
    /\ ChecksumDiffers(last.tarball)
    /\ ~last.raised

\* C6: a metadata object appears under ingested only in an execution of ingest
\* for that tarball in which the checksum matched and the ingestion script ran
\* and exited with 0.
C6_IngestedOnlyAfterInstall ==
    [][\A t \in Tarballs :
         s3meta'[MetaPath("ingested", t)] # s3meta[MetaPath("ingested", t)] =>
            /\ Ran("ingest", t)
            /\ localTar'[Basename(t)] # Absent
            /\ sha256sum(localTar'[Basename(t)]) = declared[t]
            /\ last'.installer = "zero"
            /\ installs'[t] = installs[t] + 1]_vars

\* a metadata object is under ingested
C6_Witness == \E t \in Tarballs : "ingested" \in Prefixes(t)

\* the moves of the lifecycle
Forward ==
    {<<"new", "staged">>, <<"staged", "pr_opened">>, <<"pr_opened", "approved">>,
     <<"pr_opened", "rejected">>, <<"approved", "ingested">>}

\* C7: a metadata object only moves forward along new -> staged -> pr_opened
\* -> {approved, rejected}, approved -> ingested; the one backward move is
\* pr_opened -> staged, made only when no pull request was found for the
\* tarball's branch.
C7_OnlyForwardOrRewind ==
    [][\A k \in Keys :
         s3meta'[k] # s3meta[k] /\ s3meta'[k] # NoObj =>
            /\ HandlerStep
            /\ last'.dst = k
            /\ s3meta[last'.src] # NoObj
            /\ Tail(last'.src) = Tail(k)
            /\ \/ <<last'.src[1], k[1]>> \in Forward
               \/ /\ <<last'.src[1], k[1]>> = <<"pr_opened", "staged">>
                  /\ \/ Basename(last'.tarball) \notin remoteRefs
                     \/ Basename(last'.tarball) \notin pullRefs]_vars

\* a metadata object was moved back from pr_opened to staged
C7_Witness ==
    /\ last.move = "True"
    /\ last.src[1] = "pr_opened"
    /\ last.dst[1] = "staged"
    /\ s3meta[last.dst] # NoObj

\* get_approval_pr finds a pull request for the tarball, in the given state
Found(t, pr_state) ==
    /\ Basename(t) \in remoteRefs
    /\ Basename(t) \in pullRefs
    /\ pr[Basename(t)] = pr_state

\* C8: when check_pr_status finds the pull request and the move in the bucket
\* succeeds, a merged pull request makes the state approved and a closed,
\* unmerged one rejected; an open pull request changes neither the state nor
\* the bucket, GitHub or the clone.
C8_DispositionMapping ==
    [][\A t \in Tarballs :
         Ran("check_pr_status", t) =>
            /\ Found(t, "merged") /\ last'.move = "True" =>
                  /\ last'.state1 = "approved"
                  /\ last'.path1 = MetaPath("approved", t)
                  /\ s3meta'[MetaPath("approved", t)] # NoObj
            /\ Found(t, "closed") /\ last'.move = "True" =>
                  /\ last'.state1 = "rejected"
                  /\ last'.path1 = MetaPath("rejected", t)
                  /\ s3meta'[MetaPath("rejected", t)] # NoObj
            /\ Found(t, "open") =>
                  /\ last'.state1 = "pr_opened"
                  /\ ~last'.raised
                  /\ UNCHANGED <<s3meta, github, clone, installs>>]_vars

\* check_pr_status rejected a tarball whose pull request was closed
C8_Witness ==
    /\ last.handler = "check_pr_status"
    /\ last.pr_found = "closed"
    /\ last.move = "True"
    /\ last.state1 = "rejected"

\* C9 as stated: with the branch on GitHub and no pull request at its commit,
\* check_pr_status deletes the branch, moves the metadata object to staged and
\* the state becomes staged.
C9_RewindAlwaysStaged ==
    /\ last.handler = "check_pr_status"
    /\ last.pr_found = "no_pull"
    /\ last.branch_ref = "found"
    => /\ Basename(last.tarball) \notin ghBranches
       /\ s3meta[MetaPath("staged", last.tarball)] # NoObj
       /\ last.state1 = "staged"

\* C9, amended: with the branch on GitHub and no pull request at its commit,
\* check_pr_status deletes the branch; if the move in the bucket then returns
\* True, the metadata object is under staged and no longer under pr_opened and
\* the state is staged; otherwise the state stays pr_opened.
C9_RewindStagedIfMoved ==
    /\ last.handler = "check_pr_status"
    /\ last.pr_found = "no_pull"
    /\ last.branch_ref = "found"
    => /\ Basename(last.tarball) \notin ghBranches
       /\ last.move = "True" =>
             /\ s3meta[MetaPath("staged", last.tarball)] # NoObj
             /\ s3meta[MetaPath("pr_opened", last.tarball)] = NoObj
             /\ last.state1 = "staged"
             /\ last.path1 = MetaPath("staged", last.tarball)
       /\ last.move # "True" => last.state1 = "pr_opened"

\* the rewind succeeded
C9_Witness ==
    /\ last.handler = "check_pr_status"
    /\ last.pr_found = "no_pull"
    /\ last.branch_ref = "found"
    /\ last.move = "True"
    /\ last.state1 = "staged"

\* C10: when no branch ref at all matches the tarball's branch, check_pr_status
\* does not fail: it moves the metadata object back to staged and sets the
\* state to staged, as for a branch without a pull request.
C10_MissingBranchRewinds ==
    /\ last.handler = "check_pr_status"
    /\ last.pr_found = "no_branch"
    => /\ ~last.raised
       /\ last.move # "none"
       /\ last.move = "True" => last.state1 = "staged"

\* C11: the relocation (the move in the repository, then the move in the
\* bucket) is idempotent: called again with the same old and new state on a
\* record it has already moved, it changes neither the repository nor the
\* bucket and returns True (when no call to the bucket fails: the copy returns
\* the listed ETag and delete_object does not raise).
C11_RelocationIdempotent ==
    [][/\ last.handler = "mark_new_state"
       /\ last.move = "True"
       /\ comment' # comment
       /\ last'.handler = "mark_new_state"
       /\ last'.new_state = last.new_state
       /\ last'.old_state = last.old_state
       /\ last'.copy = "result"
       /\ last'.copy_etag = last'.etag
       /\ ~last'.raised
       => /\ UNCHANGED <<s3meta, ghBranches, ghTree, localBranches, locTree>>
          /\ last'.move = "True"]_vars

\* the pull request of a tarball's branch, and where its metadata object is
Merged(t) == pr[Basename(t)] = "merged"
Closed(t) == pr[Basename(t)] = "closed"
Ingested(t) == Prefixes(t) = {"ingested"}
Rejected(t) == Prefixes(t) = {"rejected"}

\* C12: scenario A: when no external operation fails, a new tarball with a
\* matching checksum whose pull request is merged (while main is still invoked)
\* eventually has its metadata under ingested, and the ingestion script runs
\* exactly once for it over all runs.
C12_ScenarioA ==
    /\ \A t \in Tarballs : [](Merged(t) /\ runs < MaxRuns => <>Ingested(t))
    /\ [](\A t \in Tarballs : installs[t] <= 1)
    /\ [](\A t \in Tarballs : Ingested(t) => installs[t] = 1)

\* a tarball whose pull request was merged is ingested
C12_Witness == \E t \in Tarballs : Merged(t) /\ Ingested(t) /\ installs[t] = 1

\* C13: scenario B: a tarball whose pull request is closed without a merge
\* (while main is still invoked) ends with its metadata under rejected and
\* stays there, and the ingestion script is never run for it.
C13_ScenarioB ==
    /\ \A t \in Tarballs : [](Closed(t) /\ runs < MaxRuns => <>Rejected(t))
    /\ [][\A t \in Tarballs : Rejected(t) => Rejected(t)']_vars
    /\ [](\A t \in Tarballs : Closed(t) \/ Rejected(t) => installs[t] = 0)

\* a tarball whose pull request was closed is rejected
C13_Witness == \E t \in Tarballs : Closed(t) /\ Rejected(t) /\ installs[t] = 0

\* C14 (as stated): in scenario A the comment of the sponsoring pull request
\* has exactly the three rows for staged, review_requested and ingested.
C14_ThreeAnnotations ==
    \A t \in Tarballs :
        Ingested(t) =>
            comment[t] = <<"ingest_staged", "ingest_pr_opened", "ingest_done">>

\* C14 (amended): in scenario A the comment has exactly one row for each of the
\* four transitions, to staged, review_requested, approved and ingested, in
\* that order, and no other row.
C14_OneAnnotationPerTransition ==
    \A t \in Tarballs :
        Ingested(t) =>
            comment[t] = <<"ingest_staged", "ingest_pr_opened",
                           "ingest_approved", "ingest_done">>

\* an ingested tarball whose comment was annotated
C14_Witness == \E t \in Tarballs : Ingested(t) /\ Len(comment[t]) > 0

\* the download of the tarball or of its metadata file failed in this step
DownloadFailed(t) ==
    \/ localTar'[Basename(t)] = Absent
    \/ localMeta'[Basename(t)] = Absent

\* C15: scenario C: when the download of the tarball or of the metadata file
\* failed, handling an object listed under new creates no branch, commits and
\* pushes nothing, copies and deletes nothing in the bucket, and the tarball is
\* still in state new: its metadata object is still under new.
C15_FailedDownloadMutatesNothing ==
    [][\A t \in Tarballs :
          /\ run' # run
          /\ last'.handler \in {"handle_new_tarball", "__init__"}
          /\ last'.tarball = t
          /\ last'.state0 = "new"
          /\ DownloadFailed(t)
          => /\ UNCHANGED <<s3meta, ghBranches, ghTree, localBranches, locTree,
                            remoteRefs, pr, comment>>
             /\ last'.state1 = "new"
             /\ ~last'.copied /\ ~last'.deleted
             /\ s3meta'[MetaPath("new", t)] # NoObj]_vars

\* handle_new_tarball has run for a tarball whose download failed
C15_Witness ==
    /\ last.handler = "handle_new_tarball"
    /\ last.raised
    /\ localTar[Basename(last.tarball)] = Absent
    /\ localMeta[Basename(last.tarball)] # Absent

\* another candidate of this run: an object under a prefix whose turn in the
\* loop over the states comes after the state being handled
OtherCandidate ==
    \E j \in (run.idx + 1)..Len(RunStates(run.only)) :
        /\ RunStates(run.only)[j] \notin TARBALL_END_STATES
        /\ find_tarballs(RunStates(run.only)[j])' # <<>>

\* C16: an error in the handling of one object never aborts the run: when the
\* constructor or a handler fails while another candidate is still to be
\* listed and handled in this run, the run goes on.
C16_ErrorNeverAbortsRun ==
    [][/\ run.phase = "handle"
       /\ run' # run
       /\ last'.raised
       /\ OtherCandidate
       => run'.phase # "idle"]_vars

\* open_approval_request returned after get_contents_overview or create_pull
\* raised
RequestFailed(t) ==
    /\ last.handler = "open_approval_request"
    /\ last.tarball = t
    /\ last.pr_found \in {"overview_exception", "create_pull_exception"}

\* C17: when the handler of state staged fails to build the overview or to
\* open the pull request, the metadata object is still under staged and has
\* not been relocated to pr_opened.
C17_FailedRequestKeepsStaged ==
    \A t \in Tarballs :
        RequestFailed(t) =>
            /\ s3meta[MetaPath("staged", t)] # NoObj
            /\ s3meta[MetaPath("pr_opened", t)] = NoObj

\* C18: after an exception of get_contents_overview or of create_pull in the
\* handler of state staged, which the handler does not let escape, exactly one
\* open issue with the tarball's failure title exists.
C18_FailedRequestHasOneIssue ==
    \A t \in Tarballs :
        RequestFailed(t) => /\ ~last.raised
                            /\ issues[<<"overview", t>>] = 1

\* C19: when the handler of state staged succeeds (overview built, pull
\* request opened, metadata relocated in the bucket), the record's state is
\* pr_opened, the prefix of its metadata object.
C19_RequestedStateRecorded ==
    /\ last.handler = "open_approval_request"
    /\ last.pr_found = "created"
    /\ last.move = "True"
    => /\ last.state1 = "pr_opened"
       /\ last.state1 = Head(last.path1)

\* C20: when the ingestion script exits with a nonzero code, ingest relocates
\* nothing in the bucket, in the repository or in the clone and annotates
\* nothing, the state stays approved with the metadata object under approved,
\* and an issue with the failure title is created unless an open one exists.
C20_FailedInstallKeepsApproved ==
    [][\A t \in Tarballs :
          Ran("ingest", t) /\ last'.installer = "nonzero"
          => /\ UNCHANGED <<s3meta, ghBranches, ghTree, localBranches, locTree,
                            remoteRefs, comment>>
             /\ ~last'.raised
             /\ last'.state1 = "approved"
             /\ s3meta'[MetaPath("approved", t)] # NoObj
             /\ issues' = [issues EXCEPT ![<<"ingest", t>>] =
                                            IF @ = 0 THEN 1 ELSE @]]_vars

\* the ingestion script failed for a tarball a second time: the issue of the
\* first failure is still the only one
C20_Witness ==
    /\ last.handler = "ingest"
    /\ last.installer = "nonzero"
    /\ installs[last.tarball] = 2
    /\ issues[<<"ingest", last.tarball>>] = 1

\* an earlier mark_new_state(new_state) for the tarball left its row in the
\* comment
Marked(t, new_state) ==
    \E k \in 1..Len(comment[t]) : comment[t][k] = ingest_template(new_state)

\* handle_new_tarball is run again for a tarball whose branch was pushed with
\* the staged file while its object stayed under new; nothing fails this time
RetryNew(t) ==
    /\ Ran("handle_new_tarball", t)
    /\ Basename(t) \in ghBranches
    /\ MetaPath("staged", t) \in ghTree[Basename(t)]
    /\ "new" \in Prefixes(t)
    /\ localTar'[Basename(t)] # Absent
    /\ s3faults' = s3faults

\* check_pr_status is run again for a tarball whose earlier mark_new_state
\* moved the file on main (there is none on main for a closed pull request)
\* while its object stayed under pr_opened; nothing fails this time
RetryDisposition(t, pr_state, new_state) ==
    /\ Ran("check_pr_status", t)
    /\ Found(t, pr_state)
    /\ Marked(t, new_state)
    /\ pr_state = "merged" => MetaPath(new_state, t) \in ghTree["main"]
    /\ "pr_opened" \in Prefixes(t)
    /\ s3faults' = s3faults

\* ingest is run again for a tarball whose file on main is under ingested while
\* its object stayed under approved; the script exits with 0 and the move in
\* the bucket is reached and does not fail this time
RetryIngest(t) ==
    /\ Ran("ingest", t)
    /\ MetaPath("ingested", t) \in ghTree["main"]
    /\ "approved" \in Prefixes(t)
    /\ last'.installer = "zero"
    /\ last'.move # "none"
    /\ s3faults' = s3faults

\* C21: a relocation whose repository step succeeded and whose bucket step
\* failed completes when the same handler is run again and the bucket calls
\* succeed: the tarball then has exactly one metadata object, under the new
\* state, for new -> staged, pr_opened -> approved/rejected, approved -> ingested.
C21_PartialRelocationRetryable ==
    [][\A t \in Tarballs :
          /\ RetryNew(t) => Prefixes(t)' = {"staged"}
          /\ RetryDisposition(t, "merged", "approved") => Prefixes(t)' = {"approved"}
          /\ RetryDisposition(t, "closed", "rejected") => Prefixes(t)' = {"rejected"}
          /\ RetryIngest(t) => Prefixes(t)' = {"ingested"}]_vars

\* C22: within one invocation of main a handler is run at most once for a
\* tarball: a tarball a handler was run for is not handled again in that run.
C22_HandledOncePerRun ==
    [][HandlerStep => last'.tarball \notin run.handled]_vars

\* the tarball is in an end state: its metadata object is under rejected or
\* under ingested, and under no other prefix
InEndState(t) == Prefixes(t) \in {{s} : s \in {"rejected", "ingested"}}

\* the objects of the tarball under the state prefixes
KeysOf(t) == {MetaPath(s, t) : s \in StateSet}

\* a record is constructed for the tarball, or a handler runs for it
Constructed(t) == run' # run /\ last'.handler # "none" /\ last'.tarball = t

C24_NoHandlerIsNoOp ==
    last.handler = "run_handler" => ~last.raised

C26_ListOnlyMutatesNothing ==
    [][run' # run /\ (run.list_only \/ run'.list_only)
       => /\ UNCHANGED <<s3meta, ghBranches, ghTree, pr, issues, comment, installs>>
          /\ last'.handler = "none"
          /\ run'.todo = <<>>]_vars

\* a run with --list has listed state new, under which there is an object
C26_Witness ==
    /\ run.list_only
    /\ run.idx = 2
    /\ \E t \in Tarballs : "new" \in Prefixes(t)

\* C27: duplicate issues are suppressed: a failure report for a title that an
\* open issue already has creates no issue, so there is never more than one
\* issue with a title, for the report of a failed ingestion and for the report
\* of a failed pull request alike.
C27_DuplicateIssueSuppressed ==
    /\ [](\A title \in DOMAIN issues : issues[title] <= 1)
    /\ [][HandlerStep /\ last'.issue = "exists" => issues' = issues]_vars

\* open_approval_request reported a failure for which an issue was open
C27_Witness ==
    /\ last.handler = "open_approval_request"
    /\ last.issue = "exists"
    /\ issues[<<"overview", last.tarball>>] = 1

\* C28: constructing a record does not raise when the download of the metadata
\* file failed: the constructor returns a record whose local metadata path is
\* None.
C28_ConstructNeverRaises ==
    \A t \in Tarballs :
        /\ last.handler = "__init__"
        /\ last.tarball = t
        /\ localMeta[Basename(t)] = Absent
        => ~last.raised

\* C29: ingest downloads the tarball afresh before it verifies: the local file
\* whose checksum is compared and which is given to the ingestion script has
\* the content of the payload object in the bucket, also when a file with its
\* name was in the download directory before.
C29_IngestUsesStorePayload ==
    [][\A t \in Tarballs :
          Ran("ingest", t) /\ last'.checksum # "na"
          => localTar'[Basename(t)] = payload[t]]_vars

\* C30: a pull request belongs to one tarball: two tarballs with distinct
\* paths never get the same branch, and so never the same pull request.
C30_BranchPerTarball ==
    \A p \in ResolvedBranches, q \in ResolvedBranches :
        p # q => rec.pr_branch[p] # rec.pr_branch[q]

\* handle_new_tarball runs for a tarball, with its file downloaded, while a
\* branch named like the file exists in the clone or on GitHub
BranchExisted(t) ==
    /\ Ran("handle_new_tarball", t)
    /\ localTar'[Basename(t)] # Absent
    /\ Basename(t) \in localBranches \cup ghBranches

C33_RelocatedBeforeNotified ==
    [][\A t \in Tarballs :
          Ran("ingest", t) /\ last'.installer = "zero"
          => /\ last'.move # "none"
             /\ s3faults' = s3faults => "approved" \notin Prefixes(t)']_vars

\* C34: the caches are transparent: the repository, the pull request and the
\* comment a record gets through the caches are the ones the uncached lookups
\* of GitHub give for the repository, number and comment id of its metadata.
C34_CachesTransparent ==
    rec.state = "lookups" /\ rec.link2pr # NoLink2Pr
    => /\ rec.sw_repo = get_repo(rec.link2pr.repo)
       /\ rec.sw_pr = get_pull(get_repo(rec.link2pr.repo), rec.link2pr.pr)
       /\ ~rec.raised
       /\ rec.sw_pr_comment =
             get_issue_comment(get_pull(get_repo(rec.link2pr.repo), rec.link2pr.pr),
                               rec.link2pr.pr_comment_id)

\* C35: the path of the tarball main derives from a listed metadata key is
\* mapped by the record back to that key: remote_metadata_path equals the key.
C35_PathRoundTrip ==
    rec.state = "constructed" => rec.remote_metadata_path = rec.metadata_file

\* the move of a tarball's file from old_state to new_state is committed in the
\* clone's main and was not pushed: GitHub's main has the file under old_state
Unpushed(t, new_state, old_state) ==
    /\ MetaPath(new_state, t) \in locTree["main"]
    /\ MetaPath(old_state, t) \notin locTree["main"]
    /\ MetaPath(old_state, t) \in ghTree["main"]
    /\ MetaPath(new_state, t) \notin ghTree["main"]

\* C36: when the move of the metadata file was committed in the clone and not
\* pushed, a relocation run again without an error leaves GitHub's branch with
\* the file under the new state's directory.
C36_RemoteIsGroundTruth ==
    [][\A t \in Tarballs, new_state \in StateSet, old_state \in StateSet :
          /\ Unpushed(t, new_state, old_state)
          /\ comment' # comment
          /\ last'.handler = "mark_new_state" /\ last'.tarball = t /\ ~last'.raised
          /\ last'.new_state = new_state /\ last'.old_state = old_state
          => MetaPath(new_state, t) \in ghTree'["main"]]_vars

\* C37: a handler appends an annotation to a tarball's comment only in a step
\* in which its relocation in the store succeeded, also over several runs
\* with failing relocations: a row is added only when the move returned True.
C37_AnnotatedOnlyIfRelocated ==
    [][\A t \in Tarballs :
          comment'[t] # comment[t]
          => /\ last'.tarball = t
             /\ last'.move = "True"
             /\ last'.path0[1] \notin Prefixes(t)'
             /\ last'.path1[1] \in Prefixes(t)']_vars

\* check_pr_status found no pull request for the tarball's branch, deleted the
\* branch on GitHub and moved the metadata object back to staged
Rewound(t) ==
    /\ last.handler = "check_pr_status" /\ last.tarball = t
    /\ last.branch_deleted /\ last.move = "True" /\ last.state1 = "staged"

\* C38: after check_pr_status rewound a tarball to staged, the runs that
\* follow, without failures, eventually open a pull request for it.
C38_RecoveryLive ==
    \A t \in Tarballs :
        [](Rewound(t) => <>(pr[Basename(t)] # "none"))

\* C39: a pull request exists for a tarball's branch only if the relocation of
\* its metadata object to pr_opened succeeded: whenever the branch has a pull
\* request, the metadata object is not under staged.
C39_RequestOnlyIfRelocated ==
    \A t \in Tarballs :
        pr[Basename(t)] # "none" => "staged" \notin Prefixes(t)

====
